---- MODULE Spec2Model ----
(***************************************************************************)
(* Todo-list API on a Workers-style fetch handler: the route table and     *)
(* handleRequest of server.js, the Joi validation middleware, the request  *)
(* handlers and the persistence functions over the todos table.            *)
(*                                                                         *)
(* JavaScript values are tagged records; strings are sequences of          *)
(* one-character strings so that lengths, case folding and number parsing  *)
(* are computed and not assumed.                                           *)
(***************************************************************************)
EXTENDS Integers, Sequences, FiniteSets, TLC

VARIABLES db, now, ops, op, request, response, stmts, fault

vars == <<db, now, ops, op, request, response, stmts, fault>>

(***************************************************************************)
(* Bounds of the model.                                                    *)
(***************************************************************************)
MaxId == 2
MaxClock == 1
MaxOps == 3

(***************************************************************************)
(* JavaScript values.                                                      *)
(***************************************************************************)
Undefined == [t |-> "undefined"]
Null == [t |-> "null"]
Str(s) == [t |-> "string", v |-> s]
Bool(b) == [t |-> "boolean", v |-> b]
\* a finite decimal number n / 10^d, d minimal
Dec(n, d) == [t |-> "number", n |-> n, d |-> d]
Num(n) == Dec(n, 0)
\* an object is the sequence of its own entries in insertion order
Entry(k, v) == [k |-> k, v |-> v]
Obj(entries) == [t |-> "object", v |-> entries]

Rep(c, n) == [i \in 1..n |-> c]

IsStr(x) == x.t = "string"
IsObj(x) == x.t = "object"

Keys(o) == {o.v[i].k : i \in 1..Len(o.v)}
Has(o, k) == k \in Keys(o)
\* o[k]: the value of an own key, undefined otherwise
Get(o, k) ==
  IF Has(o, k)
    THEN (CHOOSE e \in {o.v[i] : i \in 1..Len(o.v)} : e.k = k).v
    ELSE Undefined
\* o[k] = v on an object: an existing key keeps its place
Put(o, k, v) ==
  IF Has(o, k)
    THEN Obj([i \in 1..Len(o.v) |-> IF o.v[i].k = k THEN Entry(k, v) ELSE o.v[i]])
    ELSE Obj(Append(o.v, Entry(k, v)))

\* JavaScript truthiness (ToBoolean)
Truthy(x) ==
  CASE x.t = "undefined" -> FALSE
    [] x.t = "null" -> FALSE
    [] x.t = "boolean" -> x.v
    [] x.t = "number" -> x.n # 0
    [] x.t = "string" -> Len(x.v) > 0
    [] OTHER -> TRUE

(***************************************************************************)
(* Characters.                                                             *)
(***************************************************************************)
Digits == <<"0", "1", "2", "3", "4", "5", "6", "7", "8", "9">>
IsDigit(c) == \E i \in 1..10 : Digits[i] = c
DigitVal(c) == (CHOOSE i \in 1..10 : Digits[i] = c) - 1
IsSpace(c) == c = " "

Upper == <<"T", "R", "U", "E", "F", "A", "L", "S">>
Lower == <<"t", "r", "u", "e", "f", "a", "l", "s">>
LowerChar(c) ==
  IF \E i \in 1..Len(Upper) : Upper[i] = c
    THEN Lower[CHOOSE i \in 1..Len(Upper) : Upper[i] = c]
    ELSE c
\* String.prototype.toLowerCase
toLowerCase(s) == [i \in 1..Len(s) |-> LowerChar(s[i])]

At(s, i) == IF i \in 1..Len(s) THEN s[i] ELSE ""

RECURSIVE SkipSpaces(_, _)
SkipSpaces(s, i) == IF IsSpace(At(s, i)) THEN SkipSpaces(s, i + 1) ELSE i

RECURSIVE SkipDigits(_, _)
SkipDigits(s, i) == IF IsDigit(At(s, i)) THEN SkipDigits(s, i + 1) ELSE i

\* the value of the digits s[i..j-1], 0 for none
RECURSIVE DigitsValue(_, _, _)
DigitsValue(s, i, j) ==
  IF j <= i THEN 0 ELSE 10 * DigitsValue(s, i, j - 1) + DigitVal(s[j - 1])

RECURSIVE Pow10(_)
Pow10(k) == IF k <= 0 THEN 1 ELSE 10 * Pow10(k - 1)

RECURSIVE Normalize(_, _)
Normalize(n, d) ==
  IF d > 0 /\ n % 10 = 0 THEN Normalize(n \div 10, d - 1) ELSE Dec(n, d)

(***************************************************************************)
(* Number parsing: Joi's string-to-number coercion and parseInt.           *)
(***************************************************************************)
NaN == [t |-> "NaN"]

\* Joi number coerce: the string must match
\* /^\s*[+-]?(?:(?:\d+(?:\.\d*)?)|(?:\.\d+))(?:e([+-]?\d+))?\s*$/i and is then
\* read by parseFloat; every other string is left as it is.  The positions
\* of the scan: b the first digit, c the end of the integer part, d the end
\* of the fraction, f the first digit of the exponent and g its end.
NumberValue(s, neg, b, c, d, f, g) ==
  LET hasDot == At(s, c) = "."
      fracLen == IF At(s, c) = "." THEN d - (c + 1) ELSE 0
      expOk == At(s, d) \in {"e", "E"} /\ g > f
      e == IF At(s, d) \in {"e", "E"} /\ g > f
             THEN (IF At(s, d + 1) = "-" THEN -1 ELSE 1) * DigitsValue(s, f, g)
             ELSE 0
      n == (IF neg THEN -1 ELSE 1)
             * (DigitsValue(s, b, c) * Pow10(fracLen)
                  + (IF At(s, c) = "." THEN DigitsValue(s, c + 1, d) ELSE 0))
  IN  IF (c > b \/ (hasDot /\ d > c + 1))
           /\ SkipSpaces(s, IF expOk THEN g ELSE d) = Len(s) + 1
        THEN IF e - fracLen >= 0
               THEN Num(n * Pow10(e - fracLen))
               ELSE Normalize(n, fracLen - e)
        ELSE Str(s)

NumberExponent(s, neg, b, c, d, f) == NumberValue(s, neg, b, c, d, f, SkipDigits(s, f))

NumberFraction(s, neg, b, c, d) ==
  NumberExponent(s, neg, b, c, d, IF At(s, d + 1) \in {"+", "-"} THEN d + 2 ELSE d + 1)

NumberInteger(s, neg, b, c) ==
  NumberFraction(s, neg, b, c, IF At(s, c) = "." THEN SkipDigits(s, c + 1) ELSE c)

NumberSign(s, a) ==
  NumberInteger(s, At(s, a) = "-", IF At(s, a) \in {"+", "-"} THEN a + 1 ELSE a,
                SkipDigits(s, IF At(s, a) \in {"+", "-"} THEN a + 1 ELSE a))

JoiNumberCoerce(s) == NumberSign(s, SkipSpaces(s, 1))

\* the digits of parseInt from the position a after the white space
IntegerPrefix(s, a, b) ==
  IF SkipDigits(s, b) > b
    THEN Num((IF At(s, a) = "-" THEN -1 ELSE 1) * DigitsValue(s, b, SkipDigits(s, b)))
    ELSE NaN

IntegerSign(s, a) == IntegerPrefix(s, a, IF At(s, a) \in {"+", "-"} THEN a + 1 ELSE a)

\* parseInt(string): leading white space, a sign, then the longest run of
\* decimal digits; NaN when there is none
parseInt(x) == IF ~IsStr(x) THEN NaN ELSE IntegerSign(x.v, SkipSpaces(x.v, 1))

(***************************************************************************)
(* Joi schemas (src/middleware/validation.js) and Joi's validation of a    *)
(* value against them with { abortEarly: false } and the default           *)
(* preferences (convert: true, allowUnknown: false).                       *)
(***************************************************************************)
TitleMax == 200
DescriptionMax == 1000

Rule(name, limit) == [name |-> name, limit |-> limit]

\* mutant: the description without .allow('')
createSchemaNoAllow ==
  [ keys |-> <<
      [ key |-> "title", type |-> "string", required |-> TRUE, allow |-> {},
        rules |-> <<Rule("min", 1), Rule("max", TitleMax)>>,
        messages |-> << <<"string.empty", "Title is required">>,
                        <<"string.max", "Title must be less than 200 characters">> >> ],
      [ key |-> "description", type |-> "string", required |-> FALSE,
        allow |-> {},
        rules |-> <<Rule("max", DescriptionMax)>>,
        messages |-> << <<"string.max", "Description must be less than 1000 characters">> >> ] >>,
    rules |-> <<>>,
    messages |-> <<>> ]

createSchema ==
  [ keys |-> <<
      [ key |-> "title", type |-> "string", required |-> TRUE, allow |-> {},
        rules |-> <<Rule("min", 1), Rule("max", TitleMax)>>,
        messages |-> << <<"string.empty", "Title is required">>,
                        <<"string.max", "Title must be less than 200 characters">> >> ],
      [ key |-> "description", type |-> "string", required |-> FALSE,
        allow |-> {Str(<<>>)},
        rules |-> <<Rule("max", DescriptionMax)>>,
        messages |-> << <<"string.max", "Description must be less than 1000 characters">> >> ] >>,
    rules |-> <<>>,
    messages |-> <<>> ]

\* mutant: the update schema without .min(1)
updateSchemaNoMin ==
  [ keys |-> <<
      [ key |-> "title", type |-> "string", required |-> FALSE, allow |-> {},
        rules |-> <<Rule("min", 1), Rule("max", TitleMax)>>,
        messages |-> << <<"string.empty", "Title cannot be empty">>,
                        <<"string.max", "Title must be less than 200 characters">> >> ],
      [ key |-> "description", type |-> "string", required |-> FALSE,
        allow |-> {Str(<<>>)},
        rules |-> <<Rule("max", DescriptionMax)>>,
        messages |-> << <<"string.max", "Description must be less than 1000 characters">> >> ],
      [ key |-> "completed", type |-> "boolean", required |-> FALSE, allow |-> {},
        rules |-> <<>>,
        messages |-> <<>> ] >>,
    rules |-> <<>>,
    messages |-> <<>> ]

updateSchema ==
  [ keys |-> <<
      [ key |-> "title", type |-> "string", required |-> FALSE, allow |-> {},
        rules |-> <<Rule("min", 1), Rule("max", TitleMax)>>,
        messages |-> << <<"string.empty", "Title cannot be empty">>,
                        <<"string.max", "Title must be less than 200 characters">> >> ],
      [ key |-> "description", type |-> "string", required |-> FALSE,
        allow |-> {Str(<<>>)},
        rules |-> <<Rule("max", DescriptionMax)>>,
        messages |-> << <<"string.max", "Description must be less than 1000 characters">> >> ],
      [ key |-> "completed", type |-> "boolean", required |-> FALSE, allow |-> {},
        rules |-> <<>>,
        messages |-> <<>> ] >>,
    rules |-> <<Rule("min", 1)>>,
    messages |-> << <<"object.min", "At least one field must be provided for update">> >> ]

\* mutant: the id schema without .positive()
idSchemaNoPositive ==
  [ keys |-> <<
      [ key |-> "id", type |-> "number", required |-> TRUE, allow |-> {},
        rules |-> <<Rule("integer", 0)>>,
        messages |-> << <<"number.base", "ID must be a number">>,
                        <<"number.integer", "ID must be an integer">>,
                        <<"number.positive", "ID must be positive">>,
                        <<"any.required", "ID is required">> >> ] >>,
    rules |-> <<>>,
    messages |-> <<>> ]

idSchema ==
  [ keys |-> <<
      [ key |-> "id", type |-> "number", required |-> TRUE, allow |-> {},
        rules |-> <<Rule("integer", 0), Rule("positive", 0)>>,
        messages |-> << <<"number.base", "ID must be a number">>,
                        <<"number.integer", "ID must be an integer">>,
                        <<"number.positive", "ID must be positive">>,
                        <<"any.required", "ID is required">> >> ] >>,
    rules |-> <<>>,
    messages |-> <<>> ]

todoSchemas == [create |-> createSchema, update |-> updateSchema, id |-> idSchema]

\* Joi's message templates for the codes no schema overrides
DefaultMessage(code, label) ==
  CASE code = "any.required" -> "\"" \o label \o "\" is required"
    [] code = "string.base" -> "\"" \o label \o "\" must be a string"
    [] code = "string.empty" -> "\"" \o label \o "\" is not allowed to be empty"
    [] code = "string.min" -> "\"" \o label \o "\" length must be at least 1 characters long"
    [] code = "boolean.base" -> "\"" \o label \o "\" must be a boolean"
    [] code = "number.base" -> "\"" \o label \o "\" must be a number"
    [] code = "object.unknown" -> "\"" \o label \o "\" is not allowed"
    [] code = "object.base" -> "\"value\" must be of type object"
    [] OTHER -> "\"" \o label \o "\" is invalid"

\* one error detail: the path and the message of the failing rule
Detail(sch, code, path, label) ==
  [ type |-> code, path |-> path,
    message |-> IF \E i \in 1..Len(sch.messages) : sch.messages[i][1] = code
                  THEN sch.messages[CHOOSE i \in 1..Len(sch.messages) :
                                      sch.messages[i][1] = code][2]
                  ELSE DefaultMessage(code, label) ]

sTrue == <<"t", "r", "u", "e">>
sFalse == <<"f", "a", "l", "s", "e">>

\* type coercion of a defined value (prefs.convert)
JoiCoerce(f, x) ==
  CASE f.type = "number" /\ IsStr(x) -> JoiNumberCoerce(x.v)
    [] f.type = "boolean" /\ IsStr(x) ->
         IF toLowerCase(x.v) = sTrue THEN Bool(TRUE)
         ELSE IF toLowerCase(x.v) = sFalse THEN Bool(FALSE)
         ELSE x
    [] OTHER -> x

\* the base check of a type: the code of its error, "" when it passes
JoiBase(f, x) ==
  CASE f.type = "string" ->
         IF ~IsStr(x) THEN "string.base"
         ELSE IF Len(x.v) = 0 THEN "string.empty"
         ELSE ""
    [] f.type = "boolean" -> IF x.t = "boolean" THEN "" ELSE "boolean.base"
    [] f.type = "number" -> IF x.t = "number" THEN "" ELSE "number.base"

\* mutant: the max rule fails at the limit itself
JoiRuleFailsAtLimit(f, r, x) ==
  CASE f.type = "string" /\ r.name = "min" -> Len(x.v) < r.limit
    [] f.type = "string" /\ r.name = "max" -> Len(x.v) >= r.limit
    [] f.type = "number" /\ r.name = "integer" -> x.d # 0
    [] f.type = "number" /\ r.name = "positive" -> ~(x.n > 0)

JoiRuleFails(f, r, x) ==
  CASE f.type = "string" /\ r.name = "min" -> Len(x.v) < r.limit
    [] f.type = "string" /\ r.name = "max" -> Len(x.v) > r.limit
    [] f.type = "number" /\ r.name = "integer" -> x.d # 0
    [] f.type = "number" /\ r.name = "positive" -> ~(x.n > 0)

RECURSIVE JoiRulesNoMax(_, _, _)
\* mutant: the max rule is never run
JoiRulesNoMax(f, i, x) ==
  IF i > Len(f.rules) THEN <<>>
  ELSE (IF f.rules[i].name # "max" /\ JoiRuleFails(f, f.rules[i], x)
          THEN <<Detail(f, f.type \o "." \o f.rules[i].name, <<f.key>>, f.key)>>
          ELSE <<>>)
       \o JoiRulesNoMax(f, i + 1, x)

RECURSIVE JoiRules(_, _, _)
\* every rule of the field from the i-th on is run: no abort on a failure
JoiRules(f, i, x) ==
  IF i > Len(f.rules) THEN <<>>
  ELSE (IF JoiRuleFails(f, f.rules[i], x)
          THEN <<Detail(f, f.type \o "." \o f.rules[i].name, <<f.key>>, f.key)>>
          ELSE <<>>)
       \o JoiRules(f, i + 1, x)

\* the value of a key after coercion: undefined, an allowed value, a failure
\* of the base check (which ends the key's validation) or the rules
JoiValidateValue(f, x) ==
  IF x = Undefined
    THEN [ value |-> x,
           errors |-> IF f.required
                        THEN <<Detail(f, "any.required", <<f.key>>, f.key)>>
                        ELSE <<>> ]
  ELSE IF x \in f.allow THEN [value |-> x, errors |-> <<>>]
  ELSE IF JoiBase(f, x) # ""
    THEN [value |-> x, errors |-> <<Detail(f, JoiBase(f, x), <<f.key>>, f.key)>>]
  ELSE [value |-> x, errors |-> JoiRules(f, 1, x)]

\* validation of the value of one key
JoiValidateKey(f, item) ==
  JoiValidateValue(f, IF item = Undefined THEN item ELSE JoiCoerce(f, item))

\* the object and the errors so far, after the result r of the key of f
JoiKeyResult(f, acc, r) ==
  [ value |-> IF r.value # Undefined THEN Put(acc.value, f.key, r.value) ELSE acc.value,
    errors |-> acc.errors \o r.errors ]

JoiKey(f, acc) == JoiKeyResult(f, acc, JoiValidateKey(f, Get(acc.value, f.key)))

RECURSIVE JoiKeysAbortEarly(_, _, _)
\* mutant: abortEarly, the first failing child ends the pass
JoiKeysAbortEarly(sch, i, acc) ==
  IF i > Len(sch.keys) \/ acc.errors # <<>> THEN acc
  ELSE JoiKeysAbortEarly(sch, i + 1, JoiKey(sch.keys[i], acc))

RECURSIVE JoiKeys(_, _, _)
\* the children of an object schema in declaration order, from the i-th on:
\* acc is the converted object and the errors accumulated so far
JoiKeys(sch, i, acc) ==
  IF i > Len(sch.keys) THEN acc
  ELSE JoiKeys(sch, i + 1, JoiKey(sch.keys[i], acc))

SchemaKeys(sch) == {sch.keys[i].key : i \in 1..Len(sch.keys)}

\* the details of the keys unk that the schema does not declare
UnknownDetails(sch, unk) ==
  [i \in 1..Len(unk) |-> Detail(sch, "object.unknown", <<unk[i].k>>, unk[i].k)]

\* mutant: keys the schema does not declare are let through
JoiUnknownAllowed(sch, value) == <<>>

\* the keys of the value that the schema does not declare, in the value's order
JoiUnknown(sch, value) ==
  UnknownDetails(sch, SelectSeq(value.v, LAMBDA e : e.k \notin SchemaKeys(sch)))

\* the object's own rules, run when the base pass left no error
JoiObjectRules(sch, value, errs) ==
  IF errs # <<>> THEN [value |-> value, errors |-> errs]
  ELSE IF \E i \in 1..Len(sch.rules) :
            sch.rules[i].name = "min" /\ Len(value.v) < sch.rules[i].limit
    THEN [value |-> value, errors |-> <<Detail(sch, "object.min", <<>>, "value")>>]
  ELSE [value |-> value, errors |-> <<>>]

\* the base pass of an object: the children, then the unknown keys
JoiObject(sch, data, base) ==
  JoiObjectRules(sch, base.value, base.errors \o JoiUnknown(sch, data))

\* schema.validate(data, { abortEarly: false }): errors of the base pass end
\* the validation before the object's own rules are run
JoiValidate(sch, data) ==
  IF data = Undefined THEN [value |-> data, errors |-> <<>>]
  ELSE IF ~IsObj(data)
    THEN [value |-> data, errors |-> <<Detail(sch, "object.base", <<>>, "value")>>]
  ELSE JoiObject(sch, data, JoiKeys(sch, 1, [value |-> data, errors |-> <<>>]))

RECURSIVE Join(_)
\* Array.prototype.join('.') of a path
Join(path) ==
  IF Len(path) = 0 THEN ""
  ELSE IF Len(path) = 1 THEN path[1]
  ELSE path[1] \o "." \o Join(Tail(path))

(***************************************************************************)
(* Requests and responses.                                                 *)
(***************************************************************************)
\* the body of a request that is not JSON: request.json() rejects
Malformed == [t |-> "malformed"]

NewRequest(method, path, params, query, body) ==
  [ method |-> method, path |-> path, params |-> params, query |-> query,
    body |-> body, bodyUsed |-> FALSE,
    validatedData |-> Undefined, validatedParams |-> Undefined ]

Response(status, headers, body) ==
  [t |-> "Response", status |-> status, headers |-> headers, body |-> body]

IsResponse(x) == x.t = "Response"

\* headers are a set of <<name, value>> pairs with one value per name
HasHeader(headers, name) == \E h \in headers : h[1] = name
\* { ...a, ...b }: the entries of b replace those of a
MergeHeaders(a, b) == {h \in a : ~HasHeader(b, h[1])} \cup b

JsonHeaders == {<<"Content-Type", "application/json">>}
\* a Response built from a string body without a Content-Type gets this one
TextHeaders == {<<"Content-Type", "text/plain;charset=UTF-8">>}

(***************************************************************************)
(* The validation middleware (src/middleware/validation.js).               *)
(***************************************************************************)
ErrorEntry(detail) == [field |-> Join(detail.path), message |-> detail.message]

ErrorDetails(errors) == [i \in 1..Len(errors) |-> ErrorEntry(errors[i])]

\* mutant: the normalized value is always stored as validatedData
validatedAsData(property, req, r) ==
  IF r.errors # <<>>
    THEN [ request |-> req,
           response |-> Response(400, JsonHeaders,
              [ success |-> FALSE, error |-> "Validation failed",
                details |-> ErrorDetails(r.errors) ]) ]
    ELSE [ request |-> [req EXCEPT !.validatedData = r.value],
           response |-> Undefined ]

\* the interceptor after schema.validate returned r: the 400 with the error
\* details, or the normalized value stored on the request
validated(property, req, r) ==
  IF r.errors # <<>>
    THEN [ request |-> req,
           response |-> Response(400, JsonHeaders,
              [ success |-> FALSE, error |-> "Validation failed",
                details |-> ErrorDetails(r.errors) ]) ]
    ELSE [ request |-> IF property = "body"
                         THEN [req EXCEPT !.validatedData = r.value]
                         ELSE [req EXCEPT !.validatedParams = r.value],
           response |-> Undefined ]

\* mutant: a body that cannot be read is handed to the validator
validateNoCatch(schema, property, req) ==
  validated(property,
            IF property = "body" THEN [req EXCEPT !.bodyUsed = TRUE] ELSE req,
            JoiValidate(schema, CASE property = "body" -> req.body
                                  [] property = "params" -> req.params
                                  [] OTHER -> req.query))

\* validate(schema, property) applied to a request: the request as the
\* interceptor leaves it and what the interceptor returns
validate(schema, property, req) ==
  IF property = "body" /\ req.body = Malformed
    THEN [ request |-> [req EXCEPT !.bodyUsed = TRUE],
           response |-> Response(400, JsonHeaders,
              [success |-> FALSE, error |-> "Invalid JSON in request body"]) ]
  ELSE validated(property,
                 IF property = "body" THEN [req EXCEPT !.bodyUsed = TRUE] ELSE req,
                 JoiValidate(schema, CASE property = "body" -> req.body
                                       [] property = "params" -> req.params
                                       [] OTHER -> req.query))

validateCreateTodo(req) == validate(todoSchemas.create, "body", req)
validateUpdateTodo(req) == validate(todoSchemas.update, "body", req)
validateTodoId(req) == validate(todoSchemas.id, "params", req)

(***************************************************************************)
(* The todos table and the persistence functions (src/models/todo.js).     *)
(* A row is [id, title, description, completed, created_at, updated_at]    *)
(* with completed stored as 0 or 1.  Every function returns the table      *)
(* after the call, the statements it issued and either its result or the   *)
(* message of the error it threw.  env.fail is the store failing on the    *)
(* statement, env.newId the id the store assigns to an inserted row,       *)
(* env.order the rows as an ORDER BY created_at DESC query yields them,    *)
(* env.now the store's CURRENT_TIMESTAMP.                                  *)
(***************************************************************************)
Return(d, st, result) == [db |-> d, stmts |-> st, threw |-> FALSE, result |-> result]
Throw(d, st, message) == [db |-> d, stmts |-> st, threw |-> TRUE, message |-> message]

StoreError == "store failure"
TypeError == "TypeError"

\* the columns the table fills in on an insert: the assigned id and both
\* timestamps at the time of the insert
TableDefaults(id, t) == [id |-> id, created_at |-> t, updated_at |-> t]

\* INSERT INTO todos (title, description, completed) VALUES (?, ?, 0)
InsertRow(id, title, description, t) ==
  [ id |-> TableDefaults(id, t).id,
    title |-> title, description |-> description, completed |-> 0,
    created_at |-> TableDefaults(id, t).created_at,
    updated_at |-> TableDefaults(id, t).updated_at ]

formatTodo(row) ==
  IF row = Null THEN Null
  ELSE [row EXCEPT !.completed = Bool(row.completed # 0)]

\* SELECT ... WHERE id = ?: a parameter that is not an integer matches no row
RowsWithId(d, id) == {r \in d : id.t = "number" /\ id.d = 0 /\ r.id = id.n}

\* SELECT ... first()
First(rows) == IF rows = {} THEN Null ELSE CHOOSE r \in rows : TRUE

\* the orders in which ORDER BY created_at DESC may yield the rows
ListOrders(d) ==
  { q \in [1..Cardinality(d) -> d] :
      /\ \A i, j \in 1..Cardinality(d) : q[i] = q[j] => i = j
      /\ \A i, j \in 1..Cardinality(d) : i < j => q[i].created_at >= q[j].created_at }

FormatAll(rows) == [i \in 1..Len(rows) |-> formatTodo(rows[i])]

\* mutant: the filter is not applied
getAllTodosUnfiltered(d, completed, env) ==
  IF env.fail THEN Throw(d, <<"SELECT">>, StoreError)
  ELSE Return(d, <<"SELECT">>, FormatAll(env.order))

\* getAllTodos(db, completed = null): an undefined filter takes the default
getAllTodos(d, completed, env) ==
  IF env.fail THEN Throw(d, <<"SELECT">>, StoreError)
  ELSE Return(d, <<"SELECT">>,
         FormatAll(IF completed # Null /\ completed # Undefined
                     THEN SelectSeq(env.order,
                            LAMBDA r : r.completed = (IF Truthy(completed) THEN 1 ELSE 0))
                     ELSE env.order))

getTodoById(d, id, env) ==
  IF env.fail THEN Throw(d, <<"SELECT">>, StoreError)
  ELSE Return(d, <<"SELECT">>, formatTodo(First(RowsWithId(d, id))))

\* createTodo(db, { title, description = '' }): destructuring null or
\* undefined throws, and the store rejects an undefined parameter
InsertTodo(d, title, description, env) ==
  IF env.fail \/ title = Undefined THEN Throw(d, <<"INSERT">>, StoreError)
  ELSE Return(d \cup {InsertRow(env.newId, title, description, env.now)}, <<"INSERT">>,
              formatTodo(InsertRow(env.newId, title, description, env.now)))

\* mutant: a missing description is stored as null
DescriptionOrNull(given) == IF given = Undefined THEN Null ELSE given

\* the default of the destructured description
DescriptionOr(given) == IF given = Undefined THEN Str(<<>>) ELSE given

createTodo(d, data, env) ==
  IF data.t \in {"null", "undefined", "malformed"} THEN Throw(d, <<>>, TypeError)
  ELSE IF ~IsObj(data) THEN InsertTodo(d, Undefined, Str(<<>>), env)
  ELSE InsertTodo(d, Get(data, "title"), DescriptionOr(Get(data, "description")), env)

allowedFields == {"title", "description", "completed"}

\* mutant: an allow-listed key is assigned whatever its value
UpdateFieldsAnyValue(updates) ==
  IF IsObj(updates)
    THEN SelectSeq(updates.v, LAMBDA e : e.k \in allowedFields)
    ELSE <<>>

\* the entries of updates that become assignments
UpdateFields(updates) ==
  IF IsObj(updates)
    THEN SelectSeq(updates.v, LAMBDA e : e.k \in allowedFields /\ e.v # Undefined)
    ELSE <<>>

\* SET key = ?; completed is written as 0 or 1
AssignField(row, e) ==
  CASE e.k = "title" -> [row EXCEPT !.title = e.v]
    [] e.k = "description" -> [row EXCEPT !.description = e.v]
    [] e.k = "completed" -> [row EXCEPT !.completed = IF Truthy(e.v) THEN 1 ELSE 0]

RECURSIVE Assign(_, _, _)
\* the assignments from the i-th on
Assign(row, fields, i) ==
  IF i > Len(fields) THEN row
  ELSE Assign(AssignField(row, fields[i]), fields, i + 1)

\* UPDATE todos SET ..., updated_at = CURRENT_TIMESTAMP WHERE id = ?, then
\* getTodoById: hit are the rows with the id, new what they become
UpdateRows(d, hit, new) == Return((d \ hit) \cup new, <<"UPDATE">>, formatTodo(First(new)))

\* mutant: updated_at is left as it was
UpdateHitNoRefresh(d, hit, fields, env) ==
  UpdateRows(d, hit, {Assign(r, fields, 1) : r \in hit})

UpdateHit(d, hit, fields, env) ==
  UpdateRows(d, hit, {[Assign(r, fields, 1) EXCEPT !.updated_at = env.now] : r \in hit})

UpdateWith(d, id, fields, env) ==
  IF fields = <<>> THEN Throw(d, <<>>, "No valid fields provided for update")
  ELSE IF env.fail THEN Throw(d, <<"UPDATE">>, StoreError)
  ELSE UpdateHit(d, RowsWithId(d, id), fields, env)

updateTodo(d, id, updates, env) ==
  IF updates.t \in {"null", "undefined", "malformed"} THEN Throw(d, <<>>, TypeError)
  ELSE UpdateWith(d, id, UpdateFields(updates), env)

\* result.changes > 0
\* mutant: the delete reports success whatever it removed
DeleteHitAlways(d, hit) == Return(d \ hit, <<"DELETE">>, TRUE)

DeleteHit(d, hit) == Return(d \ hit, <<"DELETE">>, Cardinality(hit) > 0)

deleteTodo(d, id, env) ==
  IF env.fail THEN Throw(d, <<"DELETE">>, StoreError)
  ELSE DeleteHit(d, RowsWithId(d, id))

(***************************************************************************)
(* The request handlers (src/handlers/todos.js).  A handler takes the      *)
(* context of the request (table, request, statements issued so far) and   *)
(* returns it with its response.                                           *)
(***************************************************************************)
Context(d, req) ==
  [db |-> d, request |-> req, response |-> Undefined, stmts |-> <<>>, fault |-> FALSE]

\* the context after a persistence call r, with the handler's response
After(ctx, req, r, res) ==
  [ db |-> r.db, request |-> req, response |-> res,
    stmts |-> ctx.stmts \o r.stmts,
    fault |-> ctx.fault \/ (r.threw /\ r.message = StoreError) ]

Failure(error) == [success |-> FALSE, error |-> error]

\* the completed filter of the query string
\* mutant: the parameter is compared as it was sent
CompletedFilterCaseSensitive(completedParam) ==
  IF completedParam = Undefined THEN Null
  ELSE Bool(completedParam.v = sTrue)

CompletedFilter(completedParam) ==
  IF completedParam = Undefined THEN Null
  ELSE Bool(toLowerCase(completedParam.v) = sTrue)

\* the response of getTodos to the outcome r of getAllTodos
getTodosRespond(ctx, r) ==
  IF r.threw
    THEN After(ctx, ctx.request, r,
               Response(500, JsonHeaders, Failure("Failed to fetch todos")))
    ELSE After(ctx, ctx.request, r,
               Response(200, JsonHeaders,
                 [success |-> TRUE, data |-> r.result, count |-> Len(r.result)]))

getTodos(ctx, env) ==
  getTodosRespond(ctx,
    getAllTodos(ctx.db, CompletedFilter(Get(ctx.request.query, "completed")), env))

\* mutant: a missing todo is answered like a found one
getTodoRespondNoCheck(ctx, r) ==
  IF r.threw
    THEN After(ctx, ctx.request, r,
               Response(500, JsonHeaders, Failure("Failed to fetch todo")))
  ELSE After(ctx, ctx.request, r,
             Response(200, JsonHeaders, [success |-> TRUE, data |-> r.result]))

\* the response of getTodo to the outcome r of getTodoById
getTodoRespond(ctx, r) ==
  IF r.threw
    THEN After(ctx, ctx.request, r,
               Response(500, JsonHeaders, Failure("Failed to fetch todo")))
  ELSE IF r.result = Null
    THEN After(ctx, ctx.request, r,
               Response(404, JsonHeaders, Failure("Todo not found")))
  ELSE After(ctx, ctx.request, r,
             Response(200, JsonHeaders, [success |-> TRUE, data |-> r.result]))

getTodo(ctx, env) ==
  getTodoRespond(ctx, getTodoById(ctx.db, parseInt(Get(ctx.request.params, "id")), env))

\* request.validatedData || (await request.json()): the request after the
\* expression and its value, Malformed when request.json() rejects
BodyData(req) ==
  IF Truthy(req.validatedData)
    THEN [request |-> req, data |-> req.validatedData]
    ELSE [request |-> [req EXCEPT !.bodyUsed = TRUE], data |-> req.body]

\* the response of the create handler to the outcome r of createTodo
createTodoRespond(ctx, req, r) ==
  IF r.threw
    THEN After(ctx, req, r,
               Response(500, TextHeaders, Failure("Failed to create todo")))
    ELSE After(ctx, req, r,
               Response(201, TextHeaders,
                 [ success |-> TRUE, data |-> r.result,
                   message |-> "Todo created successfully" ]))

createTodoWith(ctx, b, env) ==
  createTodoRespond(ctx, b.request,
    IF b.data = Malformed THEN Throw(ctx.db, <<>>, "SyntaxError")
    ELSE createTodo(ctx.db, b.data, env))

\* the handler createTodoHandler() returns, with the default deps
createTodoInstance(ctx, env) == createTodoWith(ctx, BodyData(ctx.request), env)

\* mutant: a failure other than 'No valid fields' is answered with 500
updateTodoRespond500(ctx, req, r) ==
  IF r.threw
    THEN IF r.message = "No valid fields provided for update"
           THEN After(ctx, req, r, Response(400, JsonHeaders, Failure(r.message)))
           ELSE After(ctx, req, r,
                      Response(500, JsonHeaders, Failure("Failed to update todo")))
  ELSE IF r.result = Null
    THEN After(ctx, req, r, Response(404, JsonHeaders, Failure("Todo not found")))
  ELSE After(ctx, req, r,
             Response(200, JsonHeaders,
               [ success |-> TRUE, data |-> r.result,
                 message |-> "Todo updated successfully" ]))

\* the response of the update handler to the outcome r of updateTodo
updateTodoRespond(ctx, req, r) ==
  IF r.threw
    THEN IF r.message = "No valid fields provided for update"
           THEN After(ctx, req, r, Response(400, JsonHeaders, Failure(r.message)))
           ELSE After(ctx, req, r, Response(404, JsonHeaders, Failure("not found")))
  ELSE IF r.result = Null
    THEN After(ctx, req, r, Response(404, JsonHeaders, Failure("Todo not found")))
  ELSE After(ctx, req, r,
             Response(200, JsonHeaders,
               [ success |-> TRUE, data |-> r.result,
                 message |-> "Todo updated successfully" ]))

updateTodoWith(ctx, id, b, env) ==
  updateTodoRespond(ctx, b.request,
    IF b.data = Malformed THEN Throw(ctx.db, <<>>, "SyntaxError")
    ELSE updateTodo(ctx.db, id, b.data, env))

\* the handler updateTodoHandler() returns, with the default deps
updateTodoInstance(ctx, env) ==
  updateTodoWith(ctx, parseInt(Get(ctx.request.params, "id")), BodyData(ctx.request), env)

\* the response of the delete handler to the outcome r of deleteTodo
deleteTodoRespond(ctx, r) ==
  IF r.threw
    THEN After(ctx, ctx.request, r,
               Response(500, JsonHeaders, Failure("Failed to delete todo")))
  ELSE IF ~r.result
    THEN After(ctx, ctx.request, r,
               Response(404, JsonHeaders, Failure("Todo not found")))
  ELSE After(ctx, ctx.request, r,
             Response(200, JsonHeaders,
               [success |-> TRUE, message |-> "Todo deleted successfully"]))

deleteTodoHandler(ctx, env) ==
  deleteTodoRespond(ctx, deleteTodo(ctx.db, parseInt(Get(ctx.request.params, "id")), env))

\* createTodoHandler and updateTodoHandler are factories, (deps) => handler:
\* called with the request as deps they return the handler function itself
HandlerFunction == [t |-> "function"]
createTodoHandler(ctx, env) == [ctx EXCEPT !.response = HandlerFunction]
updateTodoHandler(ctx, env) == [ctx EXCEPT !.response = HandlerFunction]

(***************************************************************************)
(* The route table and handleRequest (server.js).                          *)
(***************************************************************************)
corsHeaders ==
  { <<"Access-Control-Allow-Origin", "*">>,
    <<"Access-Control-Allow-Methods", "GET, POST, PATCH, DELETE, OPTIONS">>,
    <<"Access-Control-Allow-Headers", "Content-Type">> }

handleCors(ctx, env) ==
  IF ctx.request.method = "OPTIONS"
    THEN [ctx EXCEPT !.response = Response(200, corsHeaders, Null)]
    ELSE ctx

\* the two probes of the health route: SELECT 1 and the lookup of the table
health(ctx, env) ==
  LET check(ok, good, bad) ==
        [status |-> IF ok THEN "ok" ELSE "error", message |-> IF ok THEN good ELSE bad]
      healthy == ~env.fail
  IN  [ ctx EXCEPT
          !.stmts = ctx.stmts \o <<"SELECT", "SELECT">>,
          !.fault = ctx.fault \/ env.fail,
          !.response =
            Response(IF healthy THEN 200 ELSE 503,
                     MergeHeaders(JsonHeaders, corsHeaders),
                     [ status |-> IF healthy THEN "ok" ELSE "error",
                       service |-> "todo-list-api",
                       checks |->
                         [ d1_database |->
                             check(healthy, "Database is accessible", StoreError),
                           todos_table |->
                             check(healthy, "Todos table exists", StoreError) ] ]) ]

Interceptor(ctx, r) ==
  [ctx EXCEPT !.request = r.request, !.response = r.response]

\* a handler of a chain, by the name under which the route table lists it
Call(name, ctx, env) ==
  CASE name = "handleCors" -> handleCors(ctx, env)
    [] name = "health" -> health(ctx, env)
    [] name = "validateTodoId" -> Interceptor(ctx, validateTodoId(ctx.request))
    [] name = "validateCreateTodo" -> Interceptor(ctx, validateCreateTodo(ctx.request))
    [] name = "validateUpdateTodo" -> Interceptor(ctx, validateUpdateTodo(ctx.request))
    [] name = "getTodos" -> getTodos(ctx, env)
    [] name = "getTodo" -> getTodo(ctx, env)
    [] name = "createTodoHandler" -> createTodoHandler(ctx, env)
    [] name = "updateTodoHandler" -> updateTodoHandler(ctx, env)
    [] name = "deleteTodoHandler" -> deleteTodoHandler(ctx, env)
    [] name = "createTodoHandler()" -> createTodoInstance(ctx, env)
    [] name = "updateTodoHandler()" -> updateTodoInstance(ctx, env)

Route(method, path, chain) == [method |-> method, path |-> path, chain |-> chain]

\* mutant: the PATCH route validates the body before the id
routesBodyFirst ==
  << Route("ALL", "*", <<"handleCors">>),
     Route("GET", "/health", <<"health">>),
     Route("GET", "/api/todos", <<"getTodos">>),
     Route("GET", "/api/todos/:id", <<"validateTodoId", "getTodo">>),
     Route("POST", "/api/todos", <<"validateCreateTodo", "createTodoHandler">>),
     Route("PATCH", "/api/todos/:id",
           <<"validateUpdateTodo", "validateTodoId", "updateTodoHandler">>),
     Route("DELETE", "/api/todos/:id", <<"validateTodoId", "deleteTodoHandler">>) >>

routes ==
  << Route("ALL", "*", <<"handleCors">>),
     Route("GET", "/health", <<"health">>),
     Route("GET", "/api/todos", <<"getTodos">>),
     Route("GET", "/api/todos/:id", <<"validateTodoId", "getTodo">>),
     Route("POST", "/api/todos", <<"validateCreateTodo", "createTodoHandler">>),
     Route("PATCH", "/api/todos/:id",
           <<"validateTodoId", "validateUpdateTodo", "updateTodoHandler">>),
     Route("DELETE", "/api/todos/:id", <<"validateTodoId", "deleteTodoHandler">>) >>

\* a request path is [base, id]: base alone, or base followed by "/" and a
\* last segment id.  A pattern ending in /:id binds the last segment.
Path(base, id) == [base |-> base, id |-> id]

Matches(route, req) ==
  /\ route.method \in {req.method, "ALL"}
  /\ \/ route.path = "*"
     \/ route.path = req.path.base /\ req.path.id = Undefined
     \/ route.path = req.path.base \o "/:id" /\ req.path.id # Undefined

RouteParams(route, req) ==
  IF route.path = req.path.base \o "/:id"
    THEN Obj(<<Entry("id", req.path.id)>>)
    ELSE Obj(<<>>)

RECURSIVE RunChain(_, _, _, _)
\* c is the context after the i-th handler of the chain
ChainNext(chain, i, c, env) ==
  IF c.response # Undefined THEN c ELSE RunChain(chain, i + 1, c, env)

\* the handlers of a chain from the i-th on, until one returns something
RunChain(chain, i, ctx, env) ==
  IF i > Len(chain) THEN ctx
  ELSE ChainNext(chain, i, Call(chain[i], ctx, env), env)

RECURSIVE Handle(_, _, _, _)
\* c is the context after the chain of the j-th route
HandleNext(table, j, c, env) ==
  IF c.response # Undefined THEN c ELSE Handle(table, j + 1, c, env)

\* router.handle: the matching routes in the order of the table
Handle(table, j, ctx, env) ==
  IF j > Len(table) THEN ctx
  ELSE IF ~Matches(table[j], ctx.request) THEN Handle(table, j + 1, ctx, env)
  ELSE HandleNext(table, j,
         RunChain(table[j].chain, 1,
                  [ctx EXCEPT !.request.params = RouteParams(table[j], ctx.request)],
                  env),
         env)

errorResponse(message, status) == Response(status, JsonHeaders, Failure(message))

\* what handleRequest returns for the context c the router ends in
Respond(c) ==
  IF c.response = Undefined THEN c
  ELSE IF ~IsResponse(c.response)
    THEN [c EXCEPT !.response = errorResponse("Internal server error", 500)]
  ELSE IF ~HasHeader(c.response.headers, "Access-Control-Allow-Origin")
    THEN [c EXCEPT !.response.headers = MergeHeaders(c.response.headers, corsHeaders)]
  ELSE c

handleRequest(ctx, env) == Respond(Handle(routes, 1, ctx, env))

(***************************************************************************)
(* Inputs.                                                                 *)
(***************************************************************************)
MaxKeys == 3

TitleValues ==
  { Str(<<>>), Str(<<"T">>), Str(Rep("a", TitleMax)), Str(Rep("a", TitleMax + 1)),
    Num(5) }
DescriptionValues ==
  { Str(<<>>), Str(<<"d">>), Str(Rep("b", DescriptionMax)),
    Str(Rep("b", DescriptionMax + 1)), Null }
CompletedValues ==
  { Bool(TRUE), Bool(FALSE), Str(<<"T", "r", "u", "e">>), Str(<<"n", "o">>), Num(1) }

BodyEntries ==
  {Entry("title", v) : v \in TitleValues}
    \cup {Entry("description", v) : v \in DescriptionValues}
    \cup {Entry("completed", v) : v \in CompletedValues}
    \cup {Entry("priority", Num(1))}

\* the objects of at most n entries with pairwise different keys
ObjectsOf(entries, n) ==
  { Obj(s) : s \in UNION { { q \in [1..k -> entries] :
                               \A i, j \in 1..k : q[i].k = q[j].k => i = j }
                           : k \in 0..n } }

Bodies == ObjectsOf(BodyEntries, MaxKeys) \cup {Malformed, Null, Num(7)}

\* raw path or query parameters
RawIds ==
  { <<"1">>, <<"2">>, <<"3">>, <<"4">>, <<"0">>, <<"-", "1">>, <<"a", "b", "c">>,
    <<"1", ".", "5">>, <<"-", "1", ".", "5">>, <<"1", ".", "0">>, <<"1", "e", "1">>,
    <<" ", "2">>, <<"+", "3">>, <<"1", "a">>, <<>> }

IdObjects == {Obj(<<>>)} \cup {Obj(<<Entry("id", Str(raw))>>) : raw \in RawIds}

(***************************************************************************)
(* State.                                                                  *)
(***************************************************************************)
BlankRequest == NewRequest("GET", Path("/", Undefined), Obj(<<>>), Obj(<<>>), Malformed)

Init ==
  /\ db = {}
  /\ now = 0
  /\ ops = 0
  /\ op = "none"
  /\ request = BlankRequest
  /\ response = Undefined
  /\ stmts = <<>>
  /\ fault = FALSE

\* an interceptor called on its own, as the middleware tests call it
Intercept(name, r) ==
  /\ ops = 0
  /\ ops' = 1
  /\ op' = name
  /\ request' = r.request
  /\ response' = r.response
  /\ stmts' = <<>>
  /\ fault' = FALSE
  /\ UNCHANGED <<db, now>>

CallValidateCreateTodo == Intercept("validateCreateTodo", validateCreateTodo(request))

CallValidateUpdateTodo == Intercept("validateUpdateTodo", validateUpdateTodo(request))

CallValidateTodoId == Intercept("validateTodoId", validateTodoId(request))

CallValidateQuery == Intercept("validateQuery", validate(todoSchemas.id, "query", request))

\* the requests the interceptors are applied to
ValidateInputs ==
  {NewRequest("POST", Path("/api/todos", Undefined), Obj(<<>>), Obj(<<>>), body) :
       body \in Bodies}
    \cup {NewRequest("GET", Path("/api/todos", Undefined), params, Obj(<<>>), Malformed) :
            params \in IdObjects}
    \cup {NewRequest("GET", Path("/api/todos", Undefined), Obj(<<>>), query, Malformed) :
            query \in IdObjects}

InitValidate ==
  /\ db = {}
  /\ now = 0
  /\ ops = 0
  /\ op = "none"
  /\ request \in ValidateInputs
  /\ response = Undefined
  /\ stmts = <<>>
  /\ fault = FALSE

NextValidate ==
  \/ CallValidateCreateTodo
  \/ CallValidateUpdateTodo
  \/ CallValidateTodoId
  \/ CallValidateQuery

SpecValidate == InitValidate /\ [][NextValidate]_vars

(***************************************************************************)
(* Requests served by the worker, and the route chains run with the        *)
(* handlers the factories return.                                          *)
(***************************************************************************)
T == <<"T">>

PostBodies ==
  { Obj(<<Entry("title", Str(T))>>),
    Obj(<<Entry("title", Str(Rep("a", TitleMax))),
          Entry("description", Str(Rep("b", DescriptionMax)))>>),
    Obj(<<Entry("title", Str(T)),
          Entry("description", Str(Rep("b", DescriptionMax + 1)))>>),
    Obj(<<Entry("title", Str(<<>>))>>),
    Malformed }

PatchBodies ==
  { Obj(<<Entry("completed", Bool(TRUE))>>),
    Obj(<<Entry("completed", Str(sFalse))>>),
    Obj(<<Entry("title", Str(Rep("a", TitleMax))), Entry("description", Str(<<>>))>>),
    Obj(<<Entry("title", Str(<<>>))>>),
    Obj(<<Entry("priority", Num(1))>>),
    Obj(<<Entry("title", Null)>>),
    Obj(<<>>) }

PathIds == {<<"1">>, <<"2">>, <<"1", "e", "1">>, <<"a", "b", "c">>, <<"-", "1">>}

Queries ==
  {Obj(<<>>)} \cup
  { Obj(<<Entry("completed", Str(q))>>) :
      q \in {sTrue, <<"T", "R", "U", "E">>, <<"T", "r", "u", "e">>, sFalse, <<"1">>, <<>>} }

Env(fail, newId, order) == [fail |-> fail, newId |-> newId, order |-> order, now |-> now]

\* the ids the store may assign to the next inserted row: positive and unused
NewIds(d) == {i \in 1..MaxId : \A r \in d : r.id # i}

\* one operation: the context it ends in becomes the state
Finish(name, c) ==
  /\ ops < MaxOps
  /\ ops' = ops + 1
  /\ op' = name
  /\ db' = c.db
  /\ request' = c.request
  /\ response' = c.response
  /\ stmts' = c.stmts
  /\ fault' = c.fault
  /\ UNCHANGED now

Fetch(req, env) == Finish("fetch", handleRequest(Context(db, req), env))

FetchOptions ==
  \E base \in {"/api/todos", "/health"} :
    Fetch(NewRequest("OPTIONS", Path(base, Undefined), Obj(<<>>), Obj(<<>>), Malformed),
          Env(FALSE, 0, <<>>))

FetchHealth ==
  \E fail \in BOOLEAN :
    Fetch(NewRequest("GET", Path("/health", Undefined), Obj(<<>>), Obj(<<>>), Malformed),
          Env(fail, 0, <<>>))

FetchUnrouted ==
  \E r \in { <<"GET", "/">>, <<"PUT", "/api/todos">>, <<"POST", "/health">> } :
    Fetch(NewRequest(r[1], Path(r[2], Undefined), Obj(<<>>), Obj(<<>>), Malformed),
          Env(FALSE, 0, <<>>))

FetchList ==
  \E query \in Queries, fail \in BOOLEAN, order \in ListOrders(db) :
    Fetch(NewRequest("GET", Path("/api/todos", Undefined), Obj(<<>>), query, Malformed),
          Env(fail, 0, order))

FetchGet ==
  \E id \in PathIds, fail \in BOOLEAN :
    Fetch(NewRequest("GET", Path("/api/todos", Str(id)), Obj(<<>>), Obj(<<>>), Malformed),
          Env(fail, 0, <<>>))

FetchCreate ==
  \E body \in PostBodies, fail \in BOOLEAN, newId \in NewIds(db) :
    Fetch(NewRequest("POST", Path("/api/todos", Undefined), Obj(<<>>), Obj(<<>>), body),
          Env(fail, newId, <<>>))

FetchUpdate ==
  \E id \in PathIds, body \in PatchBodies, fail \in BOOLEAN :
    Fetch(NewRequest("PATCH", Path("/api/todos", Str(id)), Obj(<<>>), Obj(<<>>), body),
          Env(fail, 0, <<>>))

FetchDelete ==
  \E id \in PathIds, fail \in BOOLEAN :
    Fetch(NewRequest("DELETE", Path("/api/todos", Str(id)), Obj(<<>>), Obj(<<>>), Malformed),
          Env(fail, 0, <<>>))

\* the chain of POST /api/todos with the handler createTodoHandler() returns
ChainCreate ==
  \E body \in PostBodies, fail \in BOOLEAN, newId \in NewIds(db) :
    Finish("chainCreate",
      RunChain(<<"validateCreateTodo", "createTodoHandler()">>, 1,
        Context(db, NewRequest("POST", Path("/api/todos", Undefined),
                               Obj(<<>>), Obj(<<>>), body)),
        Env(fail, newId, <<>>)))

\* the chain of PATCH /api/todos/:id with the handler updateTodoHandler() returns
ChainUpdate ==
  \E id \in PathIds, body \in PatchBodies, fail \in BOOLEAN :
    Finish("chainUpdate",
      RunChain(<<"validateTodoId", "validateUpdateTodo", "updateTodoHandler()">>, 1,
        Context(db, NewRequest("PATCH", Path("/api/todos", Str(id)),
                               Obj(<<Entry("id", Str(id))>>), Obj(<<>>), body)),
        Env(fail, 0, <<>>)))

\* the store's clock advances
Tick ==
  /\ now < MaxClock
  /\ now' = now + 1
  /\ UNCHANGED <<db, ops, op, request, response, stmts, fault>>

Next ==
  \/ FetchOptions
  \/ FetchHealth
  \/ FetchUnrouted
  \/ FetchList
  \/ FetchGet
  \/ FetchCreate
  \/ FetchUpdate
  \/ FetchDelete
  \/ ChainCreate
  \/ ChainUpdate
  \/ Tick

Spec == Init /\ [][Next]_vars

(***************************************************************************)
(* The handlers called on their own, as the handler tests call them: the   *)
(* request carries whatever validatedData and params the caller put on it. *)
(***************************************************************************)
WithData(req, data) == [req EXCEPT !.validatedData = data]

IdParams == {Obj(<<Entry("id", Str(id))>>) : id \in {<<"1">>, <<"2">>, <<"9">>}}

\* validatedData of a direct call; undefined makes the handler read the body
CreateData ==
  { Obj(<<Entry("title", Str(T))>>),
    Obj(<<Entry("title", Str(<<"U">>)), Entry("description", Str(<<"d">>))>>),
    Obj(<<Entry("description", Str(<<"d">>))>>),
    Undefined }

UpdateData ==
  { Obj(<<Entry("completed", Bool(TRUE))>>),
    Obj(<<Entry("completed", Str(sFalse))>>),
    Obj(<<Entry("priority", Num(1)), Entry("title", Str(<<"U">>))>>),
    Obj(<<Entry("priority", Num(1))>>),
    Obj(<<Entry("title", Undefined)>>),
    Obj(<<>>),
    Undefined }

DirectBodies == {Obj(<<Entry("title", Str(<<"B">>))>>), Null, Malformed}

CallGetTodos ==
  \E query \in Queries, fail \in BOOLEAN, order \in ListOrders(db) :
    Finish("getTodos",
      getTodos(Context(db, NewRequest("GET", Path("/api/todos", Undefined),
                                      Obj(<<>>), query, Malformed)),
               Env(fail, 0, order)))

CallGetTodo ==
  \E params \in IdParams, fail \in BOOLEAN :
    Finish("getTodo",
      getTodo(Context(db, NewRequest("GET", Path("/api/todos", Get(params, "id")),
                                     params, Obj(<<>>), Malformed)),
              Env(fail, 0, <<>>)))

CallCreateTodoHandler ==
  \E data \in CreateData, body \in DirectBodies, fail \in BOOLEAN, newId \in NewIds(db) :
    /\ data # Undefined => body = Malformed
    /\ Finish("createTodoHandler",
         createTodoInstance(
           Context(db, WithData(NewRequest("POST", Path("/api/todos", Undefined),
                                           Obj(<<>>), Obj(<<>>), body), data)),
           Env(fail, newId, <<>>)))

CallUpdateTodoHandler ==
  \E params \in IdParams, data \in UpdateData, body \in DirectBodies, fail \in BOOLEAN :
    /\ data # Undefined => body = Malformed
    /\ Finish("updateTodoHandler",
         updateTodoInstance(
           Context(db, WithData(NewRequest("PATCH", Path("/api/todos", Get(params, "id")),
                                           params, Obj(<<>>), body), data)),
           Env(fail, 0, <<>>)))

CallDeleteTodoHandler ==
  \E params \in IdParams, fail \in BOOLEAN :
    Finish("deleteTodoHandler",
      deleteTodoHandler(
        Context(db, NewRequest("DELETE", Path("/api/todos", Get(params, "id")),
                               params, Obj(<<>>), Malformed)),
        Env(fail, 0, <<>>)))

NextHandlers ==
  \/ CallGetTodos
  \/ CallGetTodo
  \/ CallCreateTodoHandler
  \/ CallUpdateTodoHandler
  \/ CallDeleteTodoHandler
  \/ Tick

SpecHandlers == Init /\ [][NextHandlers]_vars

(***************************************************************************)
(* The persistence functions called on their own over a store that already *)
(* holds todos, as the model tests call them over the rows of a mock.      *)
(***************************************************************************)
\* the rows a todo of the store may be at time t, but for its id
RowShapes(t) ==
  { [ id |-> 0, title |-> Str(T), description |-> Str(<<>>), completed |-> c,
      created_at |-> ca, updated_at |-> ua ] :
      c \in {0, 1}, ca \in 0..t, ua \in 0..t }

\* the stores of at most MaxId todos at time t: updated_at never precedes
\* created_at
Stores(t) ==
  { { [f[i] EXCEPT !.id = i] : i \in {j \in 1..MaxId : f[j] # Null} } :
      f \in [1..MaxId -> {Null} \cup {r \in RowShapes(t) : r.created_at <= r.updated_at}] }

InitStore ==
  /\ now \in 0..MaxClock
  /\ db \in Stores(now)
  /\ ops = 0
  /\ op = "none"
  /\ request = BlankRequest
  /\ response = Undefined
  /\ stmts = <<>>
  /\ fault = FALSE

\* one call: request keeps the arguments, response the outcome r
StoreCall(name, args, r) ==
  /\ ops = 0
  /\ ops' = 1
  /\ op' = name
  /\ request' = args
  /\ response' = r
  /\ db' = r.db
  /\ stmts' = r.stmts
  /\ fault' = (r.threw /\ r.message = StoreError)
  /\ UNCHANGED now

StoreIds == {Num(i) : i \in 1..(MaxId + 1)}

StoreFilters == {Null, Undefined, Bool(TRUE), Bool(FALSE)}

StoreCreates ==
  { Obj(<<Entry("title", Str(<<"U">>))>>),
    Obj(<<Entry("title", Str(<<"U">>)), Entry("description", Str(<<"d">>))>>),
    Obj(<<Entry("description", Str(<<"d">>))>>),
    Null }

StoreUpdates ==
  { Obj(<<Entry("completed", Bool(TRUE))>>),
    Obj(<<Entry("completed", Bool(FALSE)), Entry("description", Str(<<"d">>))>>),
    Obj(<<Entry("priority", Num(1)), Entry("title", Str(<<"U">>))>>),
    Obj(<<Entry("id", Num(9)), Entry("created_at", Num(9))>>),
    Obj(<<Entry("title", Undefined)>>),
    Obj(<<Entry("title", Undefined), Entry("completed", Num(0))>>),
    Obj(<<>>),
    Null }

CallGetAllTodos ==
  \E completed \in StoreFilters, fail \in BOOLEAN, order \in ListOrders(db) :
    StoreCall("getAllTodos", [completed |-> completed],
              getAllTodos(db, completed, Env(fail, 0, order)))

CallGetTodoById ==
  \E id \in StoreIds, fail \in BOOLEAN :
    StoreCall("getTodoById", [id |-> id], getTodoById(db, id, Env(fail, 0, <<>>)))

CallCreateTodo ==
  \E data \in StoreCreates, fail \in BOOLEAN, newId \in NewIds(db) :
    StoreCall("createTodo", [data |-> data], createTodo(db, data, Env(fail, newId, <<>>)))

CallUpdateTodo ==
  \E id \in StoreIds, updates \in StoreUpdates, fail \in BOOLEAN :
    StoreCall("updateTodo", [id |-> id, updates |-> updates],
              updateTodo(db, id, updates, Env(fail, 0, <<>>)))

CallDeleteTodo ==
  \E id \in StoreIds, fail \in BOOLEAN :
    StoreCall("deleteTodo", [id |-> id], deleteTodo(db, id, Env(fail, 0, <<>>)))

NextStore ==
  \/ CallGetAllTodos
  \/ CallGetTodoById
  \/ CallCreateTodo
  \/ CallUpdateTodo
  \/ CallDeleteTodo

SpecStore == InitStore /\ [][NextStore]_vars

StrLenIn(x, lo, hi) == IsStr(x) /\ Len(x.v) >= lo /\ Len(x.v) <= hi

\* a create payload of a title and possibly a description within the lengths
CreatePayloadInRange(body, minTitle) ==
  /\ IsObj(body)
  /\ Keys(body) \in {{"title"}, {"title", "description"}}
  /\ StrLenIn(Get(body, "title"), minTitle, 200)
  /\ Has(body, "description") => StrLenIn(Get(body, "description"), 0, 1000)

(***************************************************************************)
(* Properties of the served requests (Spec) and of the handlers            *)
(* (SpecHandlers).                                                         *)
(***************************************************************************)
IsFetch(method, hasId) ==
  /\ op = "fetch"
  /\ request.method = method
  /\ request.path.base = "/api/todos"
  /\ (request.path.id # Undefined) = hasId

\* the path id of the request names the todo id
PathIdIs(req, id) == parseInt(req.path.id) = Num(id)

C1_PostCreates ==
  (IsFetch("POST", FALSE) /\ ~fault /\ CreatePayloadInRange(request.body, 1)) =>
    /\ IsResponse(response)
    /\ response.status = 201
    /\ response.body.data.title = Get(request.body, "title")
    /\ response.body.data.completed = Bool(FALSE)

\* the requests that follow the POST, each on the id of the one before
C1_FollowUp ==
  (op' = "fetch" /\ ops' = ops + 1 /\ op = "fetch" /\ ~fault'
     /\ request'.path.base = "/api/todos" /\ request'.path.id # Undefined) =>
    /\ ( /\ IsFetch("POST", FALSE) /\ response.status = 201
         /\ request'.method = "PATCH"
         /\ PathIdIs(request', response.body.data.id)
         /\ request'.body = Obj(<<Entry("completed", Bool(TRUE))>>) )
         => /\ response'.status = 200
            /\ response'.body.data.completed = Bool(TRUE)
    /\ ( /\ IsFetch("PATCH", TRUE) /\ response.status = 200
         /\ request'.method = "DELETE"
         /\ request'.path = request.path )
         => response'.status = 200
    /\ ( /\ IsFetch("DELETE", TRUE) /\ response.status = 200
         /\ request'.method = "GET"
         /\ request'.path = request.path )
         => response'.status = 404

\* C1: through the router, POST /api/todos with a valid title T answers 201
\* with data.title = T and data.completed = false; the following PATCH of the
\* returned id with {completed: true} answers 200 with data.completed = true;
\* the following DELETE of that id answers 200 and the next GET of it 404.
C1_EndToEnd == []C1_PostCreates /\ [][C1_FollowUp]_vars

HandlerOps ==
  {"getTodos", "getTodo", "createTodoHandler", "updateTodoHandler", "deleteTodoHandler"}

\* C3: in every handler (list, get, create, update, delete) a store call that
\* fails is answered with status 500 and a generic message, and the store is
\* not called again.
C3_StoreFailureIs500 ==
  (op \in HandlerOps /\ fault) =>
    /\ IsResponse(response)
    /\ response.status = 500
    /\ response.body.success = FALSE
    /\ response.body.error # StoreError
    /\ Len(stmts) = 1

\* the updates the update handler hands to the persistence layer
UpdatesOf(req) == IF Truthy(req.validatedData) THEN req.validatedData ELSE req.body

\* C4: the update handler maps the outcome of the persistence update: a row
\* gives 200 with the row as data and a confirmation message, no row gives
\* 404, the failure 'No valid fields provided for update' gives 400 with that
\* message as error, and every other failure gives 404.
C4_UpdateOutcomeMapping ==
  [][ (op' = "updateTodoHandler" /\ ops' = ops + 1) =>
        LET updates == UpdatesOf(request')
            r == updateTodo(db, parseInt(Get(request'.params, "id")), updates,
                            [fail |-> fault', newId |-> 0, order |-> <<>>, now |-> now])
        IN  /\ IsResponse(response')
            /\ IF updates = Malformed THEN response'.status = 404
               ELSE IF r.threw /\ r.message = "No valid fields provided for update"
                 THEN /\ response'.status = 400
                      /\ response'.body = [success |-> FALSE, error |-> r.message]
               ELSE IF r.threw
                 THEN /\ response'.status = 404
                      /\ response'.body.success = FALSE
               ELSE IF r.result = Null
                 THEN /\ response'.status = 404
                      /\ response'.body.success = FALSE
               ELSE /\ response'.status = 200
                    /\ response'.body.success = TRUE
                    /\ response'.body.data = r.result
                    /\ response'.body.message = "Todo updated successfully"
                    /\ \E row \in db' : formatTodo(row) = response'.body.data
      ]_vars

C4_Witness ==
  /\ op = "updateTodoHandler"
  /\ response.status = 400
  /\ response.body.error = "No valid fields provided for update"
  /\ stmts = <<>>

C4_WitnessRow ==
  /\ op = "updateTodoHandler"
  /\ response.status = 200
  /\ response.body.data.completed = Bool(TRUE)

C4_WitnessOtherFailure ==
  /\ op = "updateTodoHandler"
  /\ fault
  /\ response.status = 404

(***************************************************************************)
(* Properties of the validator and of the validation middleware, over      *)
(* SpecValidate.                                                           *)
(***************************************************************************)
IsValidationFailure(res) ==
  /\ IsResponse(res)
  /\ res.status = 400
  /\ res.body.success = FALSE
  /\ res.body.error = "Validation failed"
  /\ "details" \in DOMAIN res.body

HasDetail(res, field, message) ==
  \E i \in 1..Len(res.body.details) :
    res.body.details[i] = [field |-> field, message |-> message]

\* the declared constraints of the fields, read off the schema declarations
TitleViolated(body, required) ==
  IF Has(body, "title") THEN ~StrLenIn(Get(body, "title"), 1, 200) ELSE required
DescriptionViolated(body) ==
  Has(body, "description") /\ ~StrLenIn(Get(body, "description"), 0, 1000)
CompletedViolated(body) ==
  /\ Has(body, "completed")
  /\ Get(body, "completed") \notin
       {Bool(TRUE), Bool(FALSE), Str(<<"T", "r", "u", "e">>)}

ViolatedFields(body, isCreate) ==
  (IF TitleViolated(body, isCreate) THEN <<"title">> ELSE <<>>)
    \o (IF DescriptionViolated(body) THEN <<"description">> ELSE <<>>)
    \o (IF ~isCreate /\ CompletedViolated(body) THEN <<"completed">> ELSE <<>>)

DeclaredFields(isCreate) ==
  IF isCreate THEN {"title", "description"} ELSE {"title", "description", "completed"}

ReportedFields(res, isCreate) ==
  LET d == SelectSeq(res.body.details, LAMBDA e : e.field \in DeclaredFields(isCreate))
  IN  [i \in 1..Len(d) |-> d[i].field]

EmptyTitleLongDescription(body) ==
  /\ Get(body, "title") = Str(<<>>)
  /\ IsStr(Get(body, "description"))
  /\ Len(Get(body, "description").v) = 1001

\* C5: the validator does not stop at the first failing field: the details of
\* the 400 response of body validation name every field whose declared
\* constraint the payload violates, once each and in declaration order
\* (title, description, completed) whatever the order of the payload's keys;
\* an empty title with a 1001-character description gives at least 2 entries.
C5_AllErrorsInDeclarationOrder ==
  (op \in {"validateCreateTodo", "validateUpdateTodo"} /\ IsObj(request.body)) =>
    LET isCreate == op = "validateCreateTodo"
        violated == ViolatedFields(request.body, isCreate)
    IN  /\ violated # <<>> =>
             /\ IsValidationFailure(response)
             /\ ReportedFields(response, isCreate) = violated
        /\ (isCreate /\ EmptyTitleLongDescription(request.body)) =>
             /\ IsValidationFailure(response)
             /\ Len(response.body.details) >= 2

C5_Witness ==
  /\ op = "validateCreateTodo"
  /\ IsObj(request.body)
  /\ EmptyTitleLongDescription(request.body)
  /\ request.body.v[1].k = "description"
  /\ IsValidationFailure(response)
  /\ ReportedFields(response, TRUE) = <<"title", "description">>

\* C6 as stated: for every title of length at most 200 (the empty title
\* included) and every description of length at most 1000, empty or omitted,
\* create-validation succeeds and the validated data equals the payload.
C6_Original ==
  (op = "validateCreateTodo" /\ CreatePayloadInRange(request.body, 0)) =>
    /\ response = Undefined
    /\ request.validatedData = request.body

\* C6 amended: for every title of length 1 to 200 and every description of
\* length at most 1000, empty or omitted, create-validation succeeds and the
\* validated data attached to the request equals the payload.
C6_CreateAcceptsInRange ==
  (op = "validateCreateTodo" /\ CreatePayloadInRange(request.body, 1)) =>
    /\ response = Undefined
    /\ request.validatedData = request.body

C6_Witness ==
  /\ op = "validateCreateTodo"
  /\ CreatePayloadInRange(request.body, 1)
  /\ Len(Get(request.body, "title").v) = 200
  /\ Get(request.body, "description") = Str(<<>>)
  /\ request.validatedData = request.body

\* C7: length boundaries of create-validation: a title of 200 characters
\* passes and one of 201 is reported as 'Title must be less than 200
\* characters'; a description of 1000 characters passes and one of 1001 is
\* reported as 'Description must be less than 1000 characters'.
C7_LengthBoundaries ==
  (op = "validateCreateTodo" /\ IsObj(request.body)) =>
    LET title == Get(request.body, "title")
        description == Get(request.body, "description")
    IN  /\ (IsStr(title) /\ Len(title.v) = 201) =>
             /\ IsValidationFailure(response)
             /\ HasDetail(response, "title", "Title must be less than 200 characters")
        /\ (IsStr(description) /\ Len(description.v) = 1001) =>
             /\ IsValidationFailure(response)
             /\ HasDetail(response, "description",
                          "Description must be less than 1000 characters")
        /\ ( /\ IsStr(title) /\ Len(title.v) \in {1, 200}
             /\ Keys(request.body) \subseteq {"title", "description"}
             /\ Has(request.body, "description") =>
                  (IsStr(description) /\ Len(description.v) \in {0, 1, 1000}) )
             => response = Undefined

C7_Witness ==
  /\ op = "validateCreateTodo"
  /\ IsObj(request.body)
  /\ StrLenIn(Get(request.body, "title"), 200, 200)
  /\ StrLenIn(Get(request.body, "description"), 1000, 1000)
  /\ response = Undefined

C7_WitnessReject ==
  /\ op = "validateCreateTodo"
  /\ IsObj(request.body)
  /\ StrLenIn(Get(request.body, "title"), 201, 201)
  /\ HasDetail(response, "title", "Title must be less than 200 characters")

\* C8: update-validation accepts a payload only if it has at least one of
\* title, description, completed: {} is rejected with 'At least one field
\* must be provided for update', and {description: ""} is accepted with the
\* empty description kept in the validated data.
C8_UpdateNeedsOneField ==
  (op = "validateUpdateTodo" /\ IsObj(request.body)) =>
    /\ response = Undefined =>
         Keys(request.body) \cap {"title", "description", "completed"} # {}
    /\ request.body = Obj(<<>>) =>
         /\ IsValidationFailure(response)
         /\ response.body.details =
              <<[field |-> "", message |-> "At least one field must be provided for update"]>>
    /\ request.body = Obj(<<Entry("description", Str(<<>>))>>) =>
         /\ response = Undefined
         /\ Get(request.validatedData, "description") = Str(<<>>)

C8_Witness ==
  /\ op = "validateUpdateTodo"
  /\ request.body = Obj(<<Entry("description", Str(<<>>))>>)
  /\ response = Undefined
  /\ request.validatedData = Obj(<<Entry("description", Str(<<>>))>>)

C8_WitnessEmpty ==
  /\ op = "validateUpdateTodo"
  /\ request.body = Obj(<<>>)
  /\ IsValidationFailure(response)

\* what the raw ids of the model denote
IdNotNumber == {<<"a", "b", "c">>, <<"1", "a">>, <<>>}
IdNotInteger == {<<"1", ".", "5">>, <<"-", "1", ".", "5">>}
IdNotPositive == {<<"0">>, <<"-", "1">>, <<"-", "1", ".", "5">>}
IdValue(raw) ==
  CASE raw \in {<<"1">>, <<"1", ".", "0">>} -> 1
    [] raw \in {<<"2">>, <<" ", "2">>} -> 2
    [] raw \in {<<"3">>, <<"+", "3">>} -> 3
    [] raw = <<"4">> -> 4
    [] raw = <<"1", "e", "1">> -> 10

IdMessages(raw) ==
  IF raw \in IdNotNumber THEN <<"ID must be a number">>
  ELSE (IF raw \in IdNotInteger THEN <<"ID must be an integer">> ELSE <<>>)
       \o (IF raw \in IdNotPositive THEN <<"ID must be positive">> ELSE <<>>)

C9_WitnessAccept ==
  /\ op = "validateTodoId"
  /\ Get(request.params, "id") = Str(<<"1">>)
  /\ response = Undefined

OpSchema ==
  CASE op = "validateCreateTodo" -> todoSchemas.create
    [] op = "validateUpdateTodo" -> todoSchemas.update
    [] OTHER -> todoSchemas.id

OpData ==
  CASE op \in {"validateCreateTodo", "validateUpdateTodo"} -> request.body
    [] op = "validateTodoId" -> request.params
    [] OTHER -> request.query

\* C10: for a payload that could be read, the interceptor returns no response
\* exactly when the validator reports no error, and then the normalized
\* value is on the request as validatedData (body) or validatedParams
\* (params, query); otherwise it returns 400 {success: false, error:
\* 'Validation failed', details} with one entry per validator error and the
\* request carries no validated data.
C10_InterceptorContract ==
  (op \in {"validateCreateTodo", "validateUpdateTodo", "validateTodoId", "validateQuery"}
     /\ OpData # Malformed) =>
    LET r == JoiValidate(OpSchema, OpData)
        isBody == op \in {"validateCreateTodo", "validateUpdateTodo"}
    IN  /\ response = Undefined <=> r.errors = <<>>
        /\ response = Undefined =>
             /\ isBody => /\ request.validatedData = r.value
                          /\ request.validatedParams = Undefined
             /\ ~isBody => /\ request.validatedParams = r.value
                           /\ request.validatedData = Undefined
        /\ response # Undefined =>
             /\ IsValidationFailure(response)
             /\ DOMAIN response.body = {"success", "error", "details"}
             /\ Len(response.body.details) = Len(r.errors)
             /\ \A i \in 1..Len(r.errors) :
                  response.body.details[i].message = r.errors[i].message
             /\ request.validatedData = Undefined
             /\ request.validatedParams = Undefined

C10_Witness ==
  /\ op = "validateUpdateTodo"
  /\ response = Undefined
  /\ IsObj(request.validatedData)
  /\ Get(request.validatedData, "completed") = Bool(TRUE)
  /\ Get(request.body, "completed") = Str(<<"T", "r", "u", "e">>)

C10_WitnessQuery ==
  /\ op = "validateQuery"
  /\ response = Undefined
  /\ request.validatedParams = Obj(<<Entry("id", Num(1))>>)

C10_WitnessFailure ==
  /\ op = "validateUpdateTodo"
  /\ IsValidationFailure(response)
  /\ Len(response.body.details) = 3
  /\ request.validatedData = Undefined

InvalidJson ==
  Response(400, JsonHeaders, [success |-> FALSE, error |-> "Invalid JSON in request body"])

\* C11: when the body cannot be parsed as JSON the body interceptors return
\* 400 {success: false, error: 'Invalid JSON in request body'} with no
\* details; a body that parses never gets that response, whatever the
\* validator says of it.
C11_InvalidJsonDistinct ==
  op \in {"validateCreateTodo", "validateUpdateTodo"} =>
    /\ request.body = Malformed =>
         /\ response = InvalidJson
         /\ "details" \notin DOMAIN response.body
         /\ request.validatedData = Undefined
    /\ request.body # Malformed =>
         \/ response = Undefined
         \/ /\ IsValidationFailure(response)
            /\ response.body.error # InvalidJson.body.error

C11_Witness ==
  /\ op = "validateCreateTodo"
  /\ request.body = Malformed
  /\ response.status = 400
  /\ response.body.error = "Invalid JSON in request body"

C11_WitnessSchema ==
  /\ op = "validateCreateTodo"
  /\ request.body = Null
  /\ IsValidationFailure(response)

(***************************************************************************)
(* Properties of the handlers and of the persistence functions under them, *)
(* over SpecHandlers.                                                      *)
(***************************************************************************)
IsCall(name, status) == op = name /\ IsResponse(response) /\ response.status = status

\* the request names the todo id in its params
ParamIdIs(req, id) == parseInt(Get(req.params, "id")) = Num(id)

\* C12: a todo created from {title: T} with no description and then fetched
\* by the returned id comes back with the same id, the title T, completed
\* false and the empty description.
C12_CreateThenGet ==
  [][ ( /\ IsCall("createTodoHandler", 201)
        /\ IsObj(UpdatesOf(request))
        /\ Keys(UpdatesOf(request)) = {"title"}
        /\ op' = "getTodo" /\ ops' = ops + 1 /\ ~fault'
        /\ ParamIdIs(request', response.body.data.id) ) =>
      /\ response'.status = 200
      /\ response'.body.data.id = response.body.data.id
      /\ response'.body.data.title = Get(UpdatesOf(request), "title")
      /\ response'.body.data.completed = Bool(FALSE)
      /\ response'.body.data.description = Str(<<>>)
    ]_vars

\* the store was empty, so the todo fetched second was created first
C12_Witness ==
  /\ ops = 2
  /\ IsCall("getTodo", 200)
  /\ response.body.data.title = Str(T)
  /\ response.body.data.description = Str(<<>>)
  /\ response.body.data.completed = Bool(FALSE)

\* the rows of the store the request's id parameter names
Named(d, req) == {r \in d : ParamIdIs(req, r.id)}

\* C13: with the store answering, deleting an id that has no row is answered
\* 404 'Todo not found' after one DELETE statement, never with an error, and
\* leaves the store as it was; deleting an id that has a row removes that
\* row and is answered 200, and deleting the same id again right after is
\* answered 404 with the store as the first delete left it.
C13_DeleteObservation ==
  [][ (op' = "deleteTodoHandler" /\ ops' = ops + 1 /\ ~fault') =>
      /\ IsResponse(response')
      /\ stmts' = <<"DELETE">>
      /\ Named(db, request') = {} =>
           /\ response'.status = 404
           /\ response'.body = [success |-> FALSE, error |-> "Todo not found"]
           /\ db' = db
      /\ Named(db, request') # {} =>
           /\ response'.status = 200
           /\ db' = db \ Named(db, request')
      /\ (IsCall("deleteTodoHandler", 200) /\ request'.params = request.params) =>
           /\ response'.status = 404
           /\ db' = db
    ]_vars

C13_Witness ==
  /\ IsCall("deleteTodoHandler", 404)
  /\ ~fault
  /\ stmts = <<"DELETE">>
  /\ response.body.error = "Todo not found"

\* the second operation deleted the todo the first created
C13_WitnessDeleted ==
  /\ ops = 2
  /\ IsCall("deleteTodoHandler", 200)
  /\ db = {}

(***************************************************************************)
(* Properties of the persistence functions, over SpecStore.                *)
(***************************************************************************)
IsStoreCall(name) == op = name /\ ~fault

\* the todo a row is returned as: completed as a boolean
AsTodo(r) == [r EXCEPT !.completed = Bool(r.completed = 1)]

\* the rows a filter selects
Selected(d, filter) ==
  IF filter = Null THEN d ELSE {r \in d : (r.completed = 1) = filter.v}

\* C14: getAllTodos with the filter true returns exactly the stored todos
\* that are completed, with false exactly those that are not, with null all
\* of them; the result is a sequence, empty when nothing matches, newest
\* created first, and the completed of each element is a boolean.
C14_ListFilter ==
  (IsStoreCall("getAllTodos") /\ request.completed \in {Null, Bool(TRUE), Bool(FALSE)}) =>
    /\ ~response.threw
    /\ DOMAIN response.result = 1..Len(response.result)
    /\ Len(response.result) = Cardinality(Selected(db, request.completed))
    /\ {response.result[i] : i \in 1..Len(response.result)}
         = {AsTodo(r) : r \in Selected(db, request.completed)}
    /\ \A i, j \in 1..Len(response.result) :
         i < j => response.result[i].created_at >= response.result[j].created_at
    /\ \A i \in 1..Len(response.result) :
         response.result[i].completed \in {Bool(TRUE), Bool(FALSE)}

\* a store of a completed and an open todo, listed with the filter true
C14_Witness ==
  /\ IsStoreCall("getAllTodos")
  /\ request.completed = Bool(TRUE)
  /\ Cardinality(db) = 2
  /\ Len(response.result) = 1
  /\ response.result[1].completed = Bool(TRUE)

C14_WitnessEmpty ==
  /\ IsStoreCall("getAllTodos")
  /\ request.completed = Bool(FALSE)
  /\ db # {}
  /\ response.result = <<>>

C14_WitnessOrder ==
  /\ IsStoreCall("getAllTodos")
  /\ request.completed = Null
  /\ Len(response.result) = 2
  /\ response.result[1].created_at > response.result[2].created_at

\* the updates give the key a value that is not undefined
Assigned(u, k) == Has(u, k) /\ Get(u, k) # Undefined

\* the row r after the update u at time t
Updated(r, u, t) ==
  [ id |-> r.id,
    title |-> IF Assigned(u, "title") THEN Get(u, "title") ELSE r.title,
    description |->
      IF Assigned(u, "description") THEN Get(u, "description") ELSE r.description,
    completed |->
      IF Assigned(u, "completed")
        THEN (IF Truthy(Get(u, "completed")) THEN 1 ELSE 0)
        ELSE r.completed,
    created_at |-> r.created_at,
    updated_at |-> t ]

\* C15: updateTodo assigns the keys of the updates that are title,
\* description or completed and have a value other than undefined, writing
\* completed as 0 or 1; every other key is ignored and changes nothing; when
\* no key qualifies it fails with 'No valid fields provided for update'
\* before any statement is issued and the store is unchanged.
C15_UpdateAllowList ==
  [][ (op' = "updateTodo" /\ ~fault' /\ IsObj(request'.updates)) =>
      IF \E k \in allowedFields : Assigned(request'.updates, k)
        THEN /\ ~response'.threw
             /\ stmts' = <<"UPDATE">>
             /\ db' = { IF r.id = request'.id.n
                          THEN Updated(r, request'.updates, now) ELSE r : r \in db }
        ELSE /\ response'.threw
             /\ response'.message = "No valid fields provided for update"
             /\ stmts' = <<>>
             /\ db' = db
    ]_vars

\* an update of an unknown key and the title changed the title alone
C15_Witness ==
  /\ IsStoreCall("updateTodo")
  /\ IsObj(request.updates)
  /\ Has(request.updates, "priority")
  /\ ~response.threw
  /\ \E r \in db : /\ r.id = request.id.n
                    /\ r.title = Str(<<"U">>)
                    /\ DOMAIN r = DOMAIN TableDefaults(0, 0) \cup allowedFields

C15_WitnessNoField ==
  /\ IsStoreCall("updateTodo")
  /\ request.updates = Obj(<<Entry("title", Undefined)>>)
  /\ response.threw
  /\ db # {}

(***************************************************************************)
(* Further properties of the handlers, over SpecHandlers.                  *)
(***************************************************************************)
NotFound == [success |-> FALSE, error |-> "Todo not found"]

\* C16: with the store answering, the get and delete handlers answer 200
\* exactly when the store holds a row of the requested id at the call and
\* 404 {success: false, error: 'Todo not found'} exactly when it holds none;
\* the 200 of get carries the todo as data, the 200 of delete a confirmation
\* message and no data.
C16_FoundOrNotFound ==
  [][ (op' \in {"getTodo", "deleteTodoHandler"} /\ ops' = ops + 1 /\ ~fault') =>
      /\ IsResponse(response')
      /\ response'.status \in {200, 404}
      /\ response'.status = 200 <=> Named(db, request') # {}
      /\ response'.status = 404 => response'.body = NotFound
      /\ (response'.status = 200 /\ op' = "getTodo") =>
           /\ DOMAIN response'.body = {"success", "data"}
           /\ response'.body.success = TRUE
           /\ response'.body.data \in {AsTodo(r) : r \in Named(db, request')}
      /\ (response'.status = 200 /\ op' = "deleteTodoHandler") =>
           /\ DOMAIN response'.body = {"success", "message"}
           /\ response'.body.success = TRUE
           /\ response'.body.message = "Todo deleted successfully"
    ]_vars

C16_Witness ==
  /\ IsCall("getTodo", 200)
  /\ ~fault
  /\ \E r \in db : response.body.data = AsTodo(r) /\ r.completed = 1

C16_WitnessNotFound ==
  /\ IsCall("getTodo", 404)
  /\ ~fault
  /\ db # {}
  /\ response.body = NotFound

(***************************************************************************)
(* Properties of the responses: of handleRequest over Spec, of the         *)
(* handlers over SpecHandlers.                                             *)
(***************************************************************************)
IsServed == op = "fetch" /\ IsResponse(response)

\* C17: every response handleRequest returns carries the CORS headers,
\* whichever path produced it: a route handler, a validation interceptor,
\* the OPTIONS preflight, the health check or the 500 of the catch.
C17_EveryResponseCors == IsServed => corsHeaders \subseteq response.headers

\* C18: every response of the HTTP surface carries the header
\* Content-Type: application/json, the create handler's 201 and 500 included.
C18_EveryResponseJson ==
  IsResponse(response) => <<"Content-Type", "application/json">> \in response.headers

RoutedOps == {"fetch", "chainCreate", "chainUpdate"}

\* the id of the path is one the id schema rejects
BadPathId(req) == req.path.id # Undefined /\ IdMessages(req.path.id.v) # <<>>

OnlyIdDetails(res) ==
  \A i \in 1..Len(res.body.details) : res.body.details[i].field = "id"

\* C19: on a routed request the handler, and so every store statement, runs
\* only after each interceptor of the chain returned no response: a
\* statement is issued on a path with an id only with the validated id on the
\* request, and by a POST or PATCH only with the validated body on it; on
\* PATCH /api/todos/:id a failing id validation returns its 400 with the body
\* neither read nor validated; every 400 leaves the store unchanged with no
\* statement issued.
C19_InterceptorsFirst ==
  [][ (op' \in RoutedOps /\ ops' = ops + 1) =>
      /\ (IsResponse(response') /\ response'.status = 400) =>
           db' = db /\ stmts' = <<>>
      /\ (stmts' # <<>> /\ request'.path.id # Undefined) =>
           request'.validatedParams # Undefined
      /\ (stmts' # <<>> /\ request'.method \in {"POST", "PATCH"}) =>
           request'.validatedData # Undefined
      /\ (request'.method = "PATCH" /\ BadPathId(request')) =>
           /\ IsValidationFailure(response')
           /\ OnlyIdDetails(response')
           /\ ~request'.bodyUsed
           /\ request'.validatedData = Undefined
    ]_vars

C19_Witness ==
  /\ op = "fetch"
  /\ request.method = "PATCH"
  /\ BadPathId(request)
  /\ request.body = Obj(<<Entry("title", Str(<<>>))>>)
  /\ IsValidationFailure(response)
  /\ ~request.bodyUsed

C19_WitnessStore ==
  /\ op = "chainUpdate"
  /\ stmts = <<"UPDATE">>
  /\ request.validatedParams # Undefined
  /\ request.validatedData # Undefined

\* the row of id i, in a store that holds one
RowOf(d, i) == CHOOSE r \in d : r.id = i

\* the row new is the row old but for the assigned fields and updated_at
OnlyAssignedChanged(old, new, u, t) ==
  /\ new.id = old.id
  /\ new.created_at = old.created_at
  /\ new.updated_at = t
  /\ ~Assigned(u, "title") => new.title = old.title
  /\ ~Assigned(u, "description") => new.description = old.description
  /\ ~Assigned(u, "completed") => new.completed = old.completed
  /\ DOMAIN new = DOMAIN old

\* C20: a successful update of a todo changes only the allow-listed fields
\* its payload names and sets updated_at to the time of the update: the id,
\* created_at, the fields not named and every other todo are as before; the
\* list and get handlers never change the store, and a todo leaves the store
\* only through a successful delete.
C20_UpdateFrame ==
  [][ (ops' = ops + 1 /\ op' \in HandlerOps) =>
      /\ (op' = "updateTodoHandler" /\ response'.status = 200) =>
           /\ Cardinality(Named(db, request')) = 1
           /\ \A old \in Named(db, request') :
                /\ \E new \in db' : new.id = old.id
                /\ OnlyAssignedChanged(old, RowOf(db', old.id), UpdatesOf(request'), now)
                /\ db' \ {RowOf(db', old.id)} = db \ {old}
      /\ op' \in {"getTodos", "getTodo"} => db' = db
      /\ (\E r \in db : \A r2 \in db' : r2.id # r.id) =>
           op' = "deleteTodoHandler" /\ response'.status = 200
    ]_vars

\* a todo created at 0 and updated at 1 by a payload of an unknown key and
\* the title
C20_Witness ==
  /\ IsCall("updateTodoHandler", 200)
  /\ IsObj(request.validatedData)
  /\ Has(request.validatedData, "priority")
  /\ \E r \in db : /\ ParamIdIs(request, r.id)
                    /\ r.updated_at > r.created_at
                    /\ r.title = Str(<<"U">>)
                    /\ r.completed = 0

(***************************************************************************)
(* Further properties of the routed requests, over Spec.                   *)
(***************************************************************************)
NoValidFields == "No valid fields provided for update"

C21_WitnessRejected ==
  /\ op = "chainUpdate"
  /\ request.validatedData = Undefined
  /\ IsObj(request.body)
  /\ Has(request.body, "priority")
  /\ IsResponse(response)
  /\ response.status = 400

\* C22: on a routed get, update or delete request that passed the id
\* validation, the id the handler hands to the persistence layer, parseInt
\* of the raw path parameter, is the normalized id the validation stored as
\* validatedParams.id, and so a todo that is returned has that id.
C22_HandlerIdIsValidatedId ==
  ( /\ op \in {"fetch", "chainUpdate"}
    /\ request.method \in {"GET", "PATCH", "DELETE"}
    /\ request.validatedParams # Undefined ) =>
    /\ parseInt(Get(request.params, "id")) = Get(request.validatedParams, "id")
    /\ ( /\ IsResponse(response)
         /\ response.status = 200
         /\ "data" \in DOMAIN response.body ) =>
         response.body.data.id = Get(request.validatedParams, "id").n

(***************************************************************************)
(* Properties of the list handler, over SpecHandlers.                      *)
(***************************************************************************)
\* the string is 'true' but for the case of its letters
IsTrueIgnoringCase(s) ==
  /\ Len(s) = 4
  /\ s[1] \in {"t", "T"}
  /\ s[2] \in {"r", "R"}
  /\ s[3] \in {"u", "U"}
  /\ s[4] \in {"e", "E"}

\* the filter the query asks for
AskedFilter(query) ==
  IF ~Has(query, "completed") THEN Null
  ELSE Bool(IsTrueIgnoringCase(Get(query, "completed").v))

\* C23: the list handler takes its filter from the query parameter completed
\* alone: absent, it lists every todo; equal to 'true' ignoring case, the
\* completed todos; any other value, the empty string included, the todos
\* that are not completed; it never answers 400, and count is the length of
\* data.
C23_ListFilterFromQuery ==
  [][ (op' = "getTodos" /\ ops' = ops + 1) =>
        /\ IsResponse(response')
        /\ response'.status # 400
        /\ ~fault' =>
             /\ response'.status = 200
             /\ response'.body.success = TRUE
             /\ response'.body.count = Len(response'.body.data)
             /\ Len(response'.body.data)
                  = Cardinality(Selected(db, AskedFilter(request'.query)))
             /\ {response'.body.data[i] : i \in 1..Len(response'.body.data)}
                  = {AsTodo(r) : r \in Selected(db, AskedFilter(request'.query))}
    ]_vars

\* a store whose only todo is completed, listed with completed=TRUE
C23_Witness ==
  /\ IsCall("getTodos", 200)
  /\ Get(request.query, "completed") = Str(<<"T", "R", "U", "E">>)
  /\ response.body.count = 1
  /\ \A r \in db : r.completed = 1

\* the same store listed with the empty parameter: nothing is open
C23_WitnessEmptyParameter ==
  /\ IsCall("getTodos", 200)
  /\ Get(request.query, "completed") = Str(<<>>)
  /\ response.body.count = 0
  /\ db # {}

(***************************************************************************)
(* Properties of handleRequest on requests of every method and path, over  *)
(* Spec.                                                                   *)
(***************************************************************************)
\* C24: handleRequest returns an HTTP response for every request, also for
\* one that is not a preflight and whose method and path match no route.
C24_AlwaysAResponse == op = "fetch" => IsResponse(response)

====
